---- MODULE Spec2Model ----
(***************************************************************************)
(* Quarterly factor-ranking backtest of                                    *)
(* src/基于因子分析模型的量化选股策略研究.py: main's loop over industry      *)
(* files, backtest_and_analyze's loop over quarters (period-start          *)
(* mark-to-market, scoring, rebalance), the final liquidation, the         *)
(* factor-count choice of rolling_factor_analysis_and_ranking, the         *)
(* selection of the window columns of a quarter, and the cleaning of       *)
(* src/数据清洗.py followed by the aggregation of the window columns.       *)
(*                                                                         *)
(* Floats are modelled as exact rationals plus the missing value NaN,      *)
(* which propagates through every arithmetic operation as in IEEE 754.     *)
(* Dates of the price table are integers, the i-th quarterly trade date    *)
(* being QuarterDate(i); the window selection uses calendar dates.         *)
(***************************************************************************)
EXTENDS Integers, Sequences, FiniteSets, TLC

\* ---------------------------------------------------------------- bounds
\* Number of quarterly trade dates in the backtest range (15 in the source).
NumQuarters == 3
\* Largest number of rows (dates) of a price table.
MaxRows == 2
\* Largest closing price appearing in a price table.
MaxPrice == 2
\* Number of "*_清洗后.xlsx" files in the fundamentals directory.
NumIndustries == 2
\* Longest ranked list returned by the factor extractor.
MaxRanked == 2
\* Largest number of indicator columns handed to the factor extractor.
MaxVariables == 3
\* Largest squared norm of a loading vector of the first fit.
MaxEig == 3
\* Thresholds min_cum_var are the multiples of 1/ThresholdUnits in (0, 1].
ThresholdUnits == 10
\* Number of leading trade dates whose window selection is explored.
WindowQuarters == 4
\* Largest number of tokens of a column label.
MaxLabelLen == 3
\* Largest number of columns of a fundamentals table in the window selection.
MaxColumns == 2
\* Largest number of tokens of all the labels of such a table together.
MaxTokens == 4
\* Number of securities of a fundamentals table in the aggregation.
NumSecurities == 6
\* Largest numeric cell value of a fundamentals table.
MaxCell == 2

\* ------------------------------------------------------ program constants
INITIAL_CAPITAL == 1000000
TOP_N_STOCKS == 5
\* Default of the parameter max_factor.
max_factor == 10

\* Security names appearing in the fundamentals tables.
Names == {"A", "B"}
\* Column sets a price table may have ("B" may lack a price column).
PriceColumnSets == {{"A"}, {"A", "B"}}

\* ------------------------------------------------------------ arithmetic
RECURSIVE GCD(_, _)
GCD(a, b) == IF b = 0 THEN a ELSE GCD(b, a % b)

Abs(a) == IF a < 0 THEN -a ELSE a

\* The float nan (np.nan, a missing cell of a DataFrame).
NaN == [nan |-> TRUE, n |-> 0, d |-> 1]

\* The float n/d, d > 0, in lowest terms.
Rat(n, d) ==
    LET g == GCD(Abs(n), d)
    IN  [nan |-> FALSE, n |-> n \div g, d |-> d \div g]

Num(k) == Rat(k, 1)

FAdd(x, y) == IF x.nan \/ y.nan THEN NaN ELSE Rat(x.n * y.d + y.n * x.d, x.d * y.d)

FSub(x, y) == IF x.nan \/ y.nan THEN NaN ELSE Rat(x.n * y.d - y.n * x.d, x.d * y.d)

FMul(x, y) == IF x.nan \/ y.nan THEN NaN ELSE Rat(x.n * y.n, x.d * y.d)

\* x / y for y # 0 (the callers divide by a count >= 1 or a price > 0).
FDiv(x, y) ==
    IF x.nan \/ y.nan THEN NaN
    ELSE IF y.n < 0 THEN Rat(-(x.n * y.d), x.d * (-y.n))
    ELSE Rat(x.n * y.d, x.d * y.n)

\* pd.notna(x)
notna(x) == ~x.nan

\* x > 0 on floats: False for nan.
GtZero(x) == ~x.nan /\ x.n > 0

\* --------------------------------------------------------- price table
\* Cell values of a price table.
PriceVals == {NaN} \cup {Num(p) : p \in 0..MaxPrice}

\* Dates on which a price table may have a row.
Dates == 1..(2 * NumQuarters)

\* Faulty variant: the trade dates run backwards in time.
QuarterDate_Descending(i) == 2 * (NumQuarters - i) - 1

\* pd.date_range(BACKTEST_START_DATE, BACKTEST_END_DATE, freq='QS-JAN')[i]
QuarterDate(i) == 2 * i + 1

LastQuarter == NumQuarters - 1

\* The price tables read from the price file: dated rows (one per date, in
\* no order) over one column set.
PriceFrames ==
    UNION {
        UNION { [ds -> [cols -> PriceVals]] : ds \in {s \in SUBSET Dates : Cardinality(s) <= MaxRows} }
        : cols \in PriceColumnSets }

\* price_ts.set_index('日期'); price_ts.sort_index(): rows ascending by date.
RECURSIVE sort_index(_)
sort_index(df) ==
    IF DOMAIN df = {} THEN << >>
    ELSE LET dmin == CHOOSE x \in DOMAIN df : \A y \in DOMAIN df : x <= y
             rest == [y \in DOMAIN df \ {dmin} |-> df[y]]
         IN  << [date |-> dmin, px |-> df[dmin]] >> \o sort_index(rest)

\* Series.get(name, default)
SeriesGet(row, name, default) == IF name \in DOMAIN row THEN row[name] ELSE default

VARIABLES
    main_pc,            \* position of main: "start", "nodir", "listdir", "backtest",
                        \* "returned", "done", "raised"
    file_idx,           \* index of the industry file the loop of main is at
    backtested,         \* industry files whose backtest returned and was visualized
    compared,           \* plot_multi_industry_nav_comparison was called
    exception,          \* the uncaught exception, "none" if there is none
    has_name_col,       \* fundamental_df has the column 证券名称
    price_ts,           \* [none, rows]: None, or the rows ascending by date
    i,                  \* index of the next quarter of the loop
    cash,
    current_portfolio,  \* name -> shares
    portfolio_history,  \* quarter -> [start_asset] or [start_asset, end_asset]
    all_top_stocks,     \* quarter -> top-N names, best first
    all_loadings,       \* quarters with a loadings table
    final_asset_value,  \* value computed by the final liquidation (nan before it)
    liquidated,         \* the final liquidation computed a value
    fa_pc,              \* position of rolling_factor_analysis_and_ranking
    eig_vals,           \* squared norms of the loading vectors of the first fit
    min_cum_var,        \* threshold of the cumulative contribution
    n_factors,          \* chosen factor count (0 before the choice)
    win_pc,             \* position of the window selection of a quarter
    columns,            \* fundamental_df.columns, each label a sequence of tokens
    trade_idx,          \* index in quarters of the trade date of the selection
    window_cols,        \* labels selected for the window
    agg_pc,             \* position of the cleaning and aggregation of a table
    fundamental_df,     \* [cols, rows]: the columns of one indicator, security -> cells
    mean_df             \* [cols, rows]: the matrix handed to the factor extractor

vars == << main_pc, file_idx, backtested, compared, exception, has_name_col, price_ts, i,
           cash, current_portfolio, portfolio_history, all_top_stocks, all_loadings,
           final_asset_value, liquidated, fa_pc, eig_vals, min_cum_var, n_factors,
           win_pc, columns, trade_idx, window_cols, agg_pc, fundamental_df, mean_df >>

fa_vars == << fa_pc, eig_vals, min_cum_var, n_factors >>

win_vars == << win_pc, columns, trade_idx, window_cols >>

agg_vars == << agg_pc, fundamental_df, mean_df >>

\* The variables of the pure functions checked on their own.
pure_vars == << fa_vars, win_vars, agg_vars >>

main_vars == << file_idx, backtested, compared >>

result_vars == << portfolio_history, all_top_stocks, all_loadings >>

\* price_ts = None
NoPrices == [none |-> TRUE, rows |-> << >>]

\* ------------------------------------------------------------- helpers
\* Faulty variant: the last row is taken when no row is dated on or after trade_date.
RECURSIVE FirstRowFrom_OrLast(_, _, _)
FirstRowFrom_OrLast(rows, trade_date, k) ==
    IF k > Len(rows) THEN Len(rows)
    ELSE IF rows[k].date >= trade_date THEN k
    ELSE FirstRowFrom_OrLast(rows, trade_date, k + 1)

\* Index of the first row with date >= trade_date, 0 when there is none
\* (price_ts.index[price_ts.index >= trade_date][0] raising IndexError).
RECURSIVE FirstRowFrom(_, _, _)
FirstRowFrom(rows, trade_date, k) ==
    IF k > Len(rows) THEN 0
    ELSE IF rows[k].date >= trade_date THEN k
    ELSE FirstRowFrom(rows, trade_date, k + 1)

ActualTradeRow(q) == FirstRowFrom(price_ts.rows, QuarterDate(q), 1)

\* Faulty variant: the snapshot is the last row of the table.
PricesOnTradeDate_Last(q) == price_ts.rows[Len(price_ts.rows)].px

\* prices_on_trade_date = price_ts.loc[actual_trade_date]
PricesOnTradeDate(q) == price_ts.rows[ActualTradeRow(q)].px

\* sum(shares * prices.get(name, 0) for name, shares in portfolio.items())
RECURSIVE StockValue(_, _)
StockValue(portfolio, prices) ==
    IF DOMAIN portfolio = {} THEN Num(0)
    ELSE LET name == CHOOSE x \in DOMAIN portfolio : TRUE
             rest == [y \in DOMAIN portfolio \ {name} |-> portfolio[y]]
         IN  FAdd(FMul(portfolio[name], SeriesGet(prices, name, Num(0))),
                  StockValue(rest, prices))

\* Faulty variant: the holdings are left out of the total asset value.
TotalAssetValue_CashOnly(q) == IF q = 0 THEN Num(INITIAL_CAPITAL) ELSE cash

\* Period start, lines 103-107: the total asset value of quarter q.
TotalAssetValue(q) ==
    IF q = 0 THEN Num(INITIAL_CAPITAL)
    ELSE FAdd(StockValue(current_portfolio, PricesOnTradeDate(q)), cash)

\* Faulty variant: the cash is not reset to the total asset value.
CashAfterStart_Kept(q) == cash

\* cash after step 1 of quarter q (line 111), the old cash without a price table.
CashAfterStart(q) == IF price_ts.none THEN cash ELSE TotalAssetValue(q)

\* Faulty variant: the start record is written without a price table too.
HistoryAfterStart_Always(q) ==
    [k \in DOMAIN portfolio_history \cup {q} |->
        IF k = q
        THEN [start_asset |-> IF price_ts.none THEN cash ELSE TotalAssetValue(q)]
        ELSE portfolio_history[k]]

\* portfolio_history after step 1 of quarter q (line 109).
HistoryAfterStart(q) ==
    IF price_ts.none THEN portfolio_history
    ELSE [k \in DOMAIN portfolio_history \cup {q} |->
            IF k = q THEN [start_asset |-> TotalAssetValue(q)] ELSE portfolio_history[k]]

\* Faulty variant: the holdings are not cleared at the period start.
PortfolioAfterStart_Kept == current_portfolio

\* current_portfolio after step 1 of quarter q (line 112).
PortfolioAfterStart == IF price_ts.none THEN current_portfolio ELSE << >>

\* ranked_stocks.head(TOP_N_STOCKS)
head(s, k) == SubSeq(s, 1, IF Len(s) < k THEN Len(s) ELSE k)

\* Faulty variant: the price is compared with != 0, which nan passes.
Tradable_NonZero(name, prices) ==
    /\ name \in DOMAIN prices
    /\ SeriesGet(prices, name, Num(0)) # Num(0)

\* Lines 160-169: the names of target_names with a column in the snapshot
\* and a price that is not nan and > 0.
Tradable(name, prices) ==
    /\ name \in DOMAIN prices
    /\ notna(SeriesGet(prices, name, NaN))
    /\ GtZero(SeriesGet(prices, name, Num(0)))

tradable_names(target_names, prices) == SelectSeq(target_names, LAMBDA nm : Tradable(nm, prices))

\* Lines 172-176: the loop over tradable_names from position k on, as
\* [cash, portfolio] after it.
RECURSIVE Buy(_, _, _, _, _, _)
Buy(names, k, investment_per_stock, prices, c, portfolio) ==
    IF k > Len(names) THEN [cash |-> c, portfolio |-> portfolio]
    ELSE LET name == names[k]
             price == SeriesGet(prices, name, NaN)
             shares == FDiv(investment_per_stock, price)
             bought == [y \in DOMAIN portfolio \cup {name} |->
                          IF y = name THEN shares ELSE portfolio[y]]
         IN  Buy(names, k + 1, investment_per_stock, prices,
                 FSub(c, investment_per_stock), bought)

\* Faulty variant: the last quarter of the sequence buys like any other.
Rebalance_LastBuys(q, target_names, c, portfolio) ==
    IF price_ts.none
    THEN [cash |-> c, portfolio |-> portfolio]
    ELSE LET prices == PricesOnTradeDate(q)
             names == tradable_names(target_names, prices)
         IN  IF names # << >>
             THEN Buy(names, 1, FDiv(c, Num(Len(names))), prices, c, portfolio)
             ELSE [cash |-> c, portfolio |-> portfolio]

\* Step 3, lines 157-179, for quarter q with the cash c and the holdings
\* left by step 1.
Rebalance(q, target_names, c, portfolio) ==
    IF price_ts.none \/ q = LastQuarter
    THEN [cash |-> c, portfolio |-> portfolio]
    ELSE LET prices == PricesOnTradeDate(q)
             names == tradable_names(target_names, prices)
         IN  IF names # << >>
             THEN Buy(names, 1, FDiv(c, Num(Len(names))), prices, c, portfolio)
             ELSE [cash |-> c, portfolio |-> portfolio]

\* Ranked lists the factor extractor may return: distinct names, best first.
RankedLists ==
    {s \in UNION {[1..n -> Names] : n \in 1..MaxRanked} :
        \A a, b \in DOMAIN s : a # b => s[a] # s[b]}

\* ------------------------------------------------------------------ Init
InitMain ==
    /\ main_pc = "start"
    /\ file_idx = 0
    /\ backtested = {}
    /\ compared = FALSE
    /\ exception = "none"
    /\ has_name_col = TRUE
    /\ price_ts = NoPrices
    /\ i = 0
    /\ cash = Num(INITIAL_CAPITAL)
    /\ current_portfolio = << >>
    /\ portfolio_history = << >>
    /\ all_top_stocks = << >>
    /\ all_loadings = {}
    /\ final_asset_value = NaN
    /\ liquidated = FALSE

\* The factor extractor is not running.
FAIdle ==
    /\ fa_pc = "idle"
    /\ eig_vals = << >>
    /\ min_cum_var = Rat(4, 5)
    /\ n_factors = 0

\* No window selection is running.
WinIdle ==
    /\ win_pc = "idle"
    /\ columns = << >>
    /\ trade_idx = 0
    /\ window_cols = << >>

\* No table is being cleaned or aggregated.
AggIdle ==
    /\ agg_pc = "idle"
    /\ fundamental_df = [cols |-> {}, rows |-> << >>]
    /\ mean_df = [cols |-> {}, rows |-> << >>]

Init == InitMain /\ FAIdle /\ WinIdle /\ AggIdle

bt_vars == << has_name_col, price_ts, i, cash, current_portfolio, portfolio_history,
              all_top_stocks, all_loadings, final_asset_value, liquidated >>

\* The locals of backtest_and_analyze and the results held by main no longer
\* exist (the frame was left, the results were consumed).
Discard ==
    /\ has_name_col' = TRUE
    /\ price_ts' = NoPrices
    /\ i' = 0
    /\ cash' = Num(INITIAL_CAPITAL)
    /\ current_portfolio' = << >>
    /\ portfolio_history' = << >>
    /\ all_top_stocks' = << >>
    /\ all_loadings' = {}
    /\ final_asset_value' = NaN
    /\ liquidated' = FALSE

\* ------------------------------------------------------------------ main
\* Lines 295-296: the fundamentals directory does not exist.
MainDirMissing ==
    /\ main_pc = "start"
    /\ main_pc' = "nodir"
    /\ UNCHANGED << main_vars, exception, bt_vars >>
    /\ UNCHANGED pure_vars

\* Line 298: os.listdir succeeds, the loop over the files starts.
MainListDir ==
    /\ main_pc = "start"
    /\ main_pc' = "listdir"
    /\ UNCHANGED << main_vars, exception, bt_vars >>
    /\ UNCHANGED pure_vars

\* Lines 304-307: pd.read_excel of the fundamentals file raises; continue.
MainReadFailed ==
    /\ main_pc = "listdir"
    /\ file_idx < NumIndustries
    /\ file_idx' = file_idx + 1
    /\ UNCHANGED << main_pc, backtested, compared, exception, bt_vars >>
    /\ UNCHANGED pure_vars

\* Lines 67-88: the locals of backtest_and_analyze before its loop.
EnterBacktest(name_col, ts) ==
    /\ main_pc' = "backtest"
    /\ has_name_col' = name_col
    /\ price_ts' = ts
    /\ i' = 0
    /\ cash' = Num(INITIAL_CAPITAL)
    /\ current_portfolio' = << >>
    /\ portfolio_history' = << >>
    /\ all_top_stocks' = << >>
    /\ all_loadings' = {}
    /\ final_asset_value' = NaN
    /\ liquidated' = FALSE
    /\ UNCHANGED << main_vars, exception >>

\* Lines 305-319, 74-83: the fundamentals file is read; the price file is
\* absent or unreadable (price_df None), or its preprocessing fails.
MainBacktestWithoutPrices ==
    /\ main_pc = "listdir"
    /\ file_idx < NumIndustries
    /\ \E name_col \in BOOLEAN : EnterBacktest(name_col, NoPrices)
    /\ UNCHANGED pure_vars

\* Lines 305-319, 74-80: both files are read and the price table is indexed
\* by date and sorted.
MainBacktestWithPrices ==
    /\ main_pc = "listdir"
    /\ file_idx < NumIndustries
    /\ \E name_col \in BOOLEAN, price_df \in PriceFrames :
          EnterBacktest(name_col, [none |-> FALSE, rows |-> sort_index(price_df)])
    /\ UNCHANGED pure_vars

\* Line 322: the loop is over, the multi-industry comparison is drawn.
MainCompare ==
    /\ main_pc = "listdir"
    /\ file_idx = NumIndustries
    /\ compared' = TRUE
    /\ main_pc' = "done"
    /\ UNCHANGED << file_idx, backtested, exception, bt_vars >>
    /\ UNCHANGED pure_vars

\* ------------------------------------------------- the loop over quarters
InLoop == main_pc = "backtest" /\ i < NumQuarters

\* An exception leaves backtest_and_analyze and main (neither catches it).
Raise(exc) ==
    /\ exception' = exc
    /\ main_pc' = "raised"
    /\ Discard
    /\ UNCHANGED main_vars

\* Lines 95-101: no date on or after the trade date; continue.
QuarterNoPrice ==
    /\ InLoop
    /\ ~price_ts.none
    /\ ActualTradeRow(i) = 0
    /\ i' = i + 1
    /\ UNCHANGED << main_pc, main_vars, exception, has_name_col, price_ts, cash,
                    current_portfolio, result_vars, final_asset_value, liquidated >>
    /\ UNCHANGED pure_vars

\* Lines 95-99: the quarter is not skipped by QuarterNoPrice (no price table,
\* or a row on or after the trade date).
PeriodStart == price_ts.none \/ ActualTradeRow(i) # 0

\* Lines 131-133: no column of the fundamentals table lies in the window.
QuarterNoWindow ==
    /\ InLoop
    /\ PeriodStart
    /\ portfolio_history' = HistoryAfterStart(i)
    /\ cash' = CashAfterStart(i)
    /\ current_portfolio' = PortfolioAfterStart
    /\ i' = i + 1
    /\ UNCHANGED << main_pc, main_vars, exception, has_name_col, price_ts,
                    all_top_stocks, all_loadings, final_asset_value, liquidated >>
    /\ UNCHANGED pure_vars

\* Line 136: the window has columns and fundamental_df has no column
\* 证券名称: fundamental_df[base_cols + window_cols] raises KeyError.
QuarterKeyError ==
    /\ InLoop
    /\ PeriodStart
    /\ ~has_name_col
    /\ Raise("KeyError")
    /\ UNCHANGED pure_vars

\* Lines 146, 37-38: mean_df.dropna() has no row; StandardScaler.fit_transform
\* raises ValueError before the try of line 42.
QuarterNoCompleteRow ==
    /\ InLoop
    /\ PeriodStart
    /\ has_name_col
    /\ Raise("ValueError")
    /\ UNCHANGED pure_vars

\* Lines 42-54, 152-154: the factor fit raises, (None, None) is returned; continue.
QuarterFitFailed ==
    /\ InLoop
    /\ PeriodStart
    /\ has_name_col
    /\ portfolio_history' = HistoryAfterStart(i)
    /\ cash' = CashAfterStart(i)
    /\ current_portfolio' = PortfolioAfterStart
    /\ i' = i + 1
    /\ UNCHANGED << main_pc, main_vars, exception, has_name_col, price_ts,
                    all_top_stocks, all_loadings, final_asset_value, liquidated >>
    /\ UNCHANGED pure_vars

\* Lines 146-179: the factor fit returns a ranking; it is recorded and the
\* portfolio is rebuilt.
QuarterRanked ==
    /\ InLoop
    /\ PeriodStart
    /\ has_name_col
    /\ \E ranked_stocks \in RankedLists :
          LET top == head(ranked_stocks, TOP_N_STOCKS)
              after == Rebalance(i, top, CashAfterStart(i), PortfolioAfterStart)
          IN  /\ all_top_stocks' = [k \in DOMAIN all_top_stocks \cup {i} |->
                                      IF k = i THEN top ELSE all_top_stocks[k]]
              /\ all_loadings' = all_loadings \cup {i}
              /\ portfolio_history' = HistoryAfterStart(i)
              /\ cash' = after.cash
              /\ current_portfolio' = after.portfolio
    /\ i' = i + 1
    /\ UNCHANGED << main_pc, main_vars, exception, has_name_col, price_ts,
                    final_asset_value, liquidated >>
    /\ UNCHANGED pure_vars

\* ------------------------------------------------------ final liquidation
\* Lines 184-191: cash plus the holdings at the prices of the last row.
FinalAssetValue ==
    IF current_portfolio # << >>
    THEN FAdd(cash, StockValue(current_portfolio, price_ts.rows[Len(price_ts.rows)].px))
    ELSE cash

\* Faulty variant: the value is attached to the latest record of the history.
HistoryAfterLiquidation_Latest ==
    [k \in DOMAIN portfolio_history |->
        IF \A r \in DOMAIN portfolio_history : r <= k
        THEN [start_asset |-> portfolio_history[k].start_asset,
              end_asset |-> FinalAssetValue]
        ELSE portfolio_history[k]]

\* Lines 183, 193-194: the value is attached to the record of the last
\* quarter of the sequence, when there is one.
HistoryAfterLiquidation ==
    [k \in DOMAIN portfolio_history |->
        IF k = LastQuarter
        THEN [start_asset |-> portfolio_history[k].start_asset,
              end_asset |-> FinalAssetValue]
        ELSE portfolio_history[k]]

\* Lines 181-197: the final liquidation and the return to main.
FinalLiquidation ==
    /\ main_pc = "backtest"
    /\ i = NumQuarters
    /\ IF ~price_ts.none /\ DOMAIN portfolio_history # {}
       THEN /\ final_asset_value' = FinalAssetValue
            /\ liquidated' = TRUE
            /\ portfolio_history' = HistoryAfterLiquidation
       ELSE UNCHANGED << final_asset_value, liquidated, portfolio_history >>
    /\ main_pc' = "returned"
    /\ UNCHANGED << main_vars, exception, has_name_col, price_ts, i, cash,
                    current_portfolio, all_top_stocks, all_loadings >>
    /\ UNCHANGED pure_vars

\* Line 320 and the next iteration of line 298: generate_visualizations
\* consumes the results of the industry.
MainVisualize ==
    /\ main_pc = "returned"
    /\ backtested' = backtested \cup {file_idx}
    /\ file_idx' = file_idx + 1
    /\ main_pc' = "listdir"
    /\ Discard
    /\ UNCHANGED << compared, exception >>
    /\ UNCHANGED pure_vars

Next ==
    \/ MainDirMissing
    \/ MainListDir
    \/ MainReadFailed
    \/ MainBacktestWithoutPrices
    \/ MainBacktestWithPrices
    \/ MainCompare
    \/ QuarterNoPrice
    \/ QuarterNoWindow
    \/ QuarterKeyError
    \/ QuarterNoCompleteRow
    \/ QuarterFitFailed
    \/ QuarterRanked
    \/ FinalLiquidation
    \/ MainVisualize

Spec == Init /\ [][Next]_vars

\* ------------------------------------- the factor count of the extractor
FLt(x, y) == ~x.nan /\ ~y.nan /\ x.n * y.d < y.n * x.d

RECURSIVE SumSeq(_, _)
SumSeq(s, k) == IF k = 0 THEN 0 ELSE s[k] + SumSeq(s, k - 1)

\* Line 45: eig_vals / np.sum(eig_vals), nan where the sum is 0.
contrib_ratio(eig) ==
    LET total == SumSeq(eig, Len(eig))
    IN  [k \in DOMAIN eig |-> IF total = 0 THEN NaN ELSE Rat(eig[k], total)]

\* Line 46: np.cumsum
RECURSIVE CumAt(_, _)
CumAt(s, k) == IF k = 1 THEN s[1] ELSE FAdd(CumAt(s, k - 1), s[k])

cumsum(s) == [k \in DOMAIN s |-> CumAt(s, k)]

\* np.searchsorted(a, v), side='left': binary search of the 0-based
\* insertion point in lo..hi; a nan of a compares greater than v.
RECURSIVE BinarySearchLeft(_, _, _, _)
BinarySearchLeft(a, v, lo, hi) ==
    IF lo >= hi THEN lo
    ELSE LET mid == (lo + hi) \div 2
         IN  IF FLt(a[mid + 1], v)
             THEN BinarySearchLeft(a, v, mid + 1, hi)
             ELSE BinarySearchLeft(a, v, lo, mid)

\* Faulty variant: side='right', an element equal to v lies left of the point.
RECURSIVE BinarySearchRight(_, _, _, _)
BinarySearchRight(a, v, lo, hi) ==
    IF lo >= hi THEN lo
    ELSE LET mid == (lo + hi) \div 2
         IN  IF ~FLt(v, a[mid + 1])
             THEN BinarySearchRight(a, v, mid + 1, hi)
             ELSE BinarySearchRight(a, v, lo, mid)

searchsorted_Right(a, v) == BinarySearchRight(a, v, 0, Len(a))

searchsorted(a, v) == BinarySearchLeft(a, v, 0, Len(a))

\* Line 35: fit_factor = min(max_factor, n_variables)
fit_factor(n_variables) == IF max_factor < n_variables THEN max_factor ELSE n_variables

\* Line 47: the least count reaching the cumulative contribution.
ChosenFactors(eig, threshold) == searchsorted(cumsum(contrib_ratio(eig)), threshold) + 1

Thresholds == {Rat(t, ThresholdUnits) : t \in 1..ThresholdUnits}

\* A call of the extractor after its first fit: the squared norms of the
\* fit_factor loading vectors and a threshold.
InitFA ==
    /\ InitMain
    /\ fa_pc = "first_fit"
    /\ \E n_variables \in 1..MaxVariables :
          eig_vals \in [1..fit_factor(n_variables) -> 0..MaxEig]
    /\ min_cum_var \in Thresholds
    /\ n_factors = 0
    /\ WinIdle
    /\ AggIdle

\* Lines 44-47: the factor count is chosen from the first fit.
ChooseFactorCount ==
    /\ fa_pc = "first_fit"
    /\ n_factors' = ChosenFactors(eig_vals, min_cum_var)
    /\ fa_pc' = "refit"
    /\ UNCHANGED << main_pc, main_vars, exception, bt_vars, eig_vals, min_cum_var >>
    /\ UNCHANGED << win_vars, agg_vars >>

\* Lines 49-54: the second fit returns or raises ((None, None) is returned).
Refit ==
    /\ fa_pc = "refit"
    /\ fa_pc' \in {"scored", "failed"}
    /\ UNCHANGED << main_pc, main_vars, exception, bt_vars, eig_vals, min_cum_var, n_factors >>
    /\ UNCHANGED << win_vars, agg_vars >>

NextFA ==
    \/ ChooseFactorCount
    \/ Refit

SpecFA == InitFA /\ [][NextFA]_vars

\* ------------------------------------------------------ the lookback window
\* Calendar dates (pd.Timestamp at midnight).
Date(y, m, d) == [y |-> y, m |-> m, d |-> d]

IsLeapYear(y) == (y % 4 = 0 /\ y % 100 # 0) \/ y % 400 = 0

DaysInMonth(y, m) ==
    IF m = 2 THEN (IF IsLeapYear(y) THEN 29 ELSE 28)
    ELSE IF m \in {4, 6, 9, 11} THEN 30 ELSE 31

\* a <= b on dates
DateLe(a, b) ==
    \/ a.y < b.y
    \/ a.y = b.y /\ a.m < b.m
    \/ a.y = b.y /\ a.m = b.m /\ a.d <= b.d

\* date - pd.DateOffset(months=k): the same day k months earlier, clipped to
\* the length of that month.
DateOffsetBack(date, k) ==
    LET idx == 12 * date.y + (date.m - 1) - k
        y == idx \div 12
        m == (idx % 12) + 1
    IN  Date(y, m, IF date.d > DaysInMonth(y, m) THEN DaysInMonth(y, m) ELSE date.d)

\* date + pd.offsets.MonthEnd(0): the last day of the month of date.
MonthEnd(date) == Date(date.y, date.m, DaysInMonth(date.y, date.m))

BACKTEST_START_DATE == Date(2021, 3, 31)
BACKTEST_END_DATE == Date(2024, 12, 31)

\* Line 88: pd.date_range(start, end, freq='QS-JAN')[k], the k-th first day
\* of January, April, July or October on or after BACKTEST_START_DATE.
quarters(k) ==
    LET idx == 12 * BACKTEST_START_DATE.y + BACKTEST_START_DATE.m - 1
        first == IF BACKTEST_START_DATE.d = 1 /\ idx % 3 = 0 THEN idx
                 ELSE ((idx \div 3) + 1) * 3
    IN  Date((first + 3 * k) \div 12, ((first + 3 * k) % 12) + 1, 1)

\* len(quarters): the quarter starts up to BACKTEST_END_DATE.
NumTradeDates == Cardinality({k \in 0..63 : DateLe(quarters(k), BACKTEST_END_DATE)})

\* Faulty variant: the reporting lag is three months.
t2_ShortLag(trade_date) == DateOffsetBack(trade_date, 3)

\* Line 115: t2 = trade_date - pd.DateOffset(months=6)
t2(trade_date) == DateOffsetBack(trade_date, 6)

\* Line 116: t5 = t2 - pd.DateOffset(months=9)
t5(trade_date) == DateOffsetBack(t2(trade_date), 9)

\* pd.Timestamp.min and pd.Timestamp.max (nanosecond resolution) as the
\* first and the last representable midnight.
Timestamp_min == Date(1677, 9, 22)
Timestamp_max == Date(2262, 4, 11)

\* Runs of exactly four digits appearing in labels, and int() of each.
LabelYears == {"1000", "2019", "2020", "2021"}
int_year == ("1000" :> 1000 @@ "2019" :> 2019 @@ "2020" :> 2020 @@ "2021" :> 2021)

\* The report tags 一季, 中报, 三季, 年报 of line 119, written Q1, H1, Q3, FY.
ReportTags == {"Q1", "H1", "Q3", "FY"}
report_map == ("Q1" :> 3 @@ "H1" :> 6 @@ "Q3" :> 9 @@ "FY" :> 12)

\* A label is a sequence of blank-separated tokens: a four-digit run, a
\* report tag, or "x", text with neither.
Tokens == LabelYears \cup ReportTags \cup {"x"}
Labels == UNION {[1..n -> Tokens] : n \in 0..MaxLabelLen}
RECURSIVE TokenCount(_, _)
TokenCount(cols, k) == IF k = 0 THEN 0 ELSE Len(cols[k]) + TokenCount(cols, k - 1)
ColumnLists ==
    {cols \in UNION {[1..n -> Labels] : n \in 1..MaxColumns} :
        TokenCount(cols, Len(cols)) <= MaxTokens}

\* Lines 122-124: re.search(r'(\d{4}).*?(一季|中报|三季|年报)', clean_col)
\* as << year, report_type >>, << >> when there is no match: the leftmost
\* four-digit run with a tag after it, and the first tag after that run.
re_search(clean_col) ==
    LET starts == {p \in DOMAIN clean_col :
                      /\ clean_col[p] \in LabelYears
                      /\ \E r \in DOMAIN clean_col : r > p /\ clean_col[r] \in ReportTags}
    IN  IF starts = {} THEN << >>
        ELSE LET p == CHOOSE x \in starts : \A y \in starts : x <= y
                 tags == {r \in DOMAIN clean_col : r > p /\ clean_col[r] \in ReportTags}
                 r == CHOOSE x \in tags : \A y \in tags : x <= y
             IN  << clean_col[p], clean_col[r] >>

\* f'{year}-{month}-01' of a matching label.
FirstOfReportMonth(col) ==
    Date(int_year[re_search(col)[1]], report_map[re_search(col)[2]], 1)

\* Line 127: pd.to_datetime(...) + pd.offsets.MonthEnd(0)
report_date(col) == MonthEnd(FirstOfReportMonth(col))

\* Line 127 raises OutOfBoundsDatetime: the date is outside the Timestamp range.
OutOfBounds(col) ==
    /\ re_search(col) # << >>
    /\ \/ ~DateLe(Timestamp_min, FirstOfReportMonth(col))
       \/ ~DateLe(report_date(col), Timestamp_max)

\* Lines 123, 128: the label matches and t5 <= report_date <= t2.
InWindow(col, trade_date) ==
    /\ re_search(col) # << >>
    /\ DateLe(t5(trade_date), report_date(col))
    /\ DateLe(report_date(col), t2(trade_date))

\* Lines 118-129: the loop over fundamental_df.columns[1:].
WindowCols(cols, trade_date) ==
    SelectSeq(SubSeq(cols, 2, Len(cols)), LAMBDA col : InWindow(col, trade_date))

\* The window selection of one quarter of one fundamentals table.
InitWin ==
    /\ InitMain
    /\ FAIdle
    /\ AggIdle
    /\ win_pc = "select"
    /\ columns \in ColumnLists
    /\ trade_idx \in 0..(WindowQuarters - 1)
    /\ window_cols = << >>

\* Lines 115-133: every label converts; the window is selected, and the
\* quarter is skipped when it is empty.
WindowSelect ==
    /\ win_pc = "select"
    /\ \A k \in 2..Len(columns) : ~OutOfBounds(columns[k])
    /\ window_cols' = WindowCols(columns, quarters(trade_idx))
    /\ win_pc' = IF window_cols' = << >> THEN "skipped" ELSE "aggregate"
    /\ UNCHANGED << columns, trade_idx >>
    /\ UNCHANGED << main_pc, main_vars, exception, bt_vars, fa_vars, agg_vars >>

\* Line 127: pd.to_datetime raises on a label of columns[1:]; the exception
\* leaves backtest_and_analyze.
WindowRaise ==
    /\ win_pc = "select"
    /\ \E k \in 2..Len(columns) : OutOfBounds(columns[k])
    /\ win_pc' = "raised"
    /\ UNCHANGED << columns, trade_idx, window_cols >>
    /\ UNCHANGED << main_pc, main_vars, exception, bt_vars, fa_vars, agg_vars >>

NextWin ==
    \/ WindowSelect
    \/ WindowRaise

SpecWin == InitWin /\ [][NextWin]_vars

\* ------------------------------------------- cleaning and aggregation
\* src/数据清洗.py, lines 12 and 14.
INDICATOR_DROP_THRESHOLD == Rat(4, 5)
STOCK_DROP_THRESHOLD == Rat(1, 2)

\* Cells of a fundamentals table: missing or numeric.
CellVals == {NaN} \cup {Num(v) : v \in 1..MaxCell}

\* The columns of the one indicator "X" of the table: "w" is the column in
\* the window of the quarter, "o" a column of another period.
IndicatorCols == {"w", "o"}

\* The tables read by clean_data, after the removal of the ST names.
RawTables ==
    {[cols |-> IndicatorCols, rows |-> r] :
        r \in [1..NumSecurities -> [IndicatorCols -> CellVals]]}

\* df[cols].isnull().sum().sum() over the rows of secs
isnull_sum(df, secs, cols) ==
    Cardinality({sc \in secs \X cols : df.rows[sc[1]][sc[2]].nan})

\* Lines 59-79 of clean_data: the columns of an indicator whose block has a
\* missing rate > INDICATOR_DROP_THRESHOLD are dropped.
DropSparseIndicator(df) ==
    LET total_cells == Cardinality(DOMAIN df.rows) * Cardinality(df.cols)
        missing_cells == isnull_sum(df, DOMAIN df.rows, df.cols)
        drop == /\ total_cells > 0
                /\ FLt(INDICATOR_DROP_THRESHOLD, Rat(missing_cells, total_cells))
        kept == IF drop THEN {} ELSE df.cols
    IN  [cols |-> kept, rows |-> [s \in DOMAIN df.rows |-> [c \in kept |-> df.rows[s][c]]]]

\* Lines 85-95 of clean_data: the rows with a missing rate over the
\* remaining data columns > STOCK_DROP_THRESHOLD are dropped.
DropSparseStocks(df) ==
    IF df.cols = {} THEN df
    ELSE LET stocks_to_remove ==
                 {s \in DOMAIN df.rows :
                     FLt(STOCK_DROP_THRESHOLD,
                         Rat(isnull_sum(df, {s}, df.cols), Cardinality(df.cols)))}
         IN  [cols |-> df.cols,
              rows |-> [s \in DOMAIN df.rows \ stocks_to_remove |-> df.rows[s]]]

\* clean_data, steps 2 and 3.
clean_data(df) == DropSparseStocks(DropSparseIndicator(df))

\* Sum and count of the non-missing cells of row over cols.
RECURSIVE RowSum(_, _)
RowSum(row, cols) ==
    IF cols = {} THEN Num(0)
    ELSE LET c == CHOOSE x \in cols : TRUE
         IN  IF row[c].nan THEN RowSum(row, cols \ {c})
             ELSE FAdd(row[c], RowSum(row, cols \ {c}))

\* Line 144: window_df[cols_for_mean].mean(axis=1) for one row, missing
\* cells skipped, nan when every cell is missing.
RowMean(row, cols) ==
    LET present == {c \in cols : ~row[c].nan}
    IN  IF present = {} THEN NaN
        ELSE FDiv(RowSum(row, present), Num(Cardinality(present)))

\* Lines 135-146: mean_df with the column of the indicator, then dropna().
Aggregated(df, wcols) ==
    LET means == [s \in DOMAIN df.rows |-> RowMean(df.rows[s], wcols)]
        complete == {s \in DOMAIN df.rows : notna(means[s])}
    IN  [cols |-> {"X"}, rows |-> [s \in complete |-> means[s]]]

\* A raw table goes through clean_data and one quarter of the backtest.
InitAgg ==
    /\ InitMain
    /\ FAIdle
    /\ WinIdle
    /\ agg_pc = "raw"
    /\ fundamental_df \in RawTables
    /\ mean_df = [cols |-> {}, rows |-> << >>]

\* clean_data writes the cleaned table that main reads back.
CleanData ==
    /\ agg_pc = "raw"
    /\ fundamental_df' = clean_data(fundamental_df)
    /\ agg_pc' = "cleaned"
    /\ UNCHANGED mean_df
    /\ UNCHANGED << main_pc, main_vars, exception, bt_vars, fa_vars, win_vars >>

\* Lines 131-146 of the backtest for the quarter whose window holds "w":
\* skipped without a window column, else the matrix is built.
Aggregate ==
    /\ agg_pc = "cleaned"
    /\ LET wcols == fundamental_df.cols \cap {"w"}
       IN  IF wcols = {}
           THEN agg_pc' = "skipped" /\ UNCHANGED mean_df
           ELSE agg_pc' = "matrix" /\ mean_df' = Aggregated(fundamental_df, wcols)
    /\ UNCHANGED fundamental_df
    /\ UNCHANGED << main_pc, main_vars, exception, bt_vars, fa_vars, win_vars >>

NextAgg ==
    \/ CleanData
    \/ Aggregate

SpecAgg == InitAgg /\ [][NextAgg]_vars

\* ====================================================== checked properties
\* Recomputations used by the properties below; they read the price table
\* directly and share nothing with the operators of the loop.

\* Some row of the price table is dated on or after the trade date of q.
ChkHasDate(q) == \E k \in DOMAIN price_ts.rows : price_ts.rows[k].date >= QuarterDate(q)

\* The prices of the earliest row dated on or after the trade date of q.
ChkSnapshot(q) ==
    LET cands == {k \in DOMAIN price_ts.rows : price_ts.rows[k].date >= QuarterDate(q)}
        first == CHOOSE k \in cands :
                    \A j \in cands : price_ts.rows[k].date <= price_ts.rows[j].date
    IN  price_ts.rows[first].px

ChkPriced(px, name) == name \in DOMAIN px /\ ~px[name].nan

ChkTradable(px, name) == ChkPriced(px, name) /\ px[name].n > 0

\* Sum over the names of held of shares times price (nan if one is nan).
RECURSIVE ChkValue(_, _, _)
ChkValue(held, portfolio, px) ==
    IF held = {} THEN Num(0)
    ELSE LET name == CHOOSE x \in held : TRUE
         IN  FAdd(ChkValue(held \ {name}, portfolio, px), FMul(portfolio[name], px[name]))

\* The step from quarter i to i + 1 ran the period start of quarter i.
ChkStartStep ==
    /\ main_pc = "backtest"
    /\ main_pc' = "backtest"
    /\ i' = i + 1
    /\ i \in DOMAIN portfolio_history'

\* The quarter the loop has just finished.
ChkDone == i - 1

ChkAfterQuarter == main_pc \in {"backtest", "returned"} /\ i > 0 /\ ~price_ts.none

HasEnd(q) == "end_asset" \in DOMAIN portfolio_history[q]

\* C1: for every quarter i > 0 with a tradable date, the recorded
\* start_asset is the cash left by the previously processed quarter plus the
\* sum over the holdings it left of shares times the price of the name on
\* the actual trade date of quarter i (every held name has a price column).
C1_StartAssetIdentity ==
    [][ (ChkStartStep /\ i > 0) =>
          /\ \A name \in DOMAIN current_portfolio : name \in DOMAIN ChkSnapshot(i)
          /\ portfolio_history'[i].start_asset =
                FAdd(cash, ChkValue(DOMAIN current_portfolio, current_portfolio,
                                    ChkSnapshot(i))) ]_vars

\* C1 witness: quarter 2 was marked to market at a value other than the
\* initial capital after a quarter 1 whose scoring failed.
C1_Witness ==
    /\ main_pc = "backtest"
    /\ 2 \in DOMAIN portfolio_history
    /\ ~portfolio_history[2].start_asset.nan
    /\ portfolio_history[2].start_asset # Num(INITIAL_CAPITAL)
    /\ 1 \notin DOMAIN all_top_stocks
    /\ 0 \in DOMAIN all_top_stocks

\* C2: after the rebalance step of a quarter, a name of its top-N list that
\* has no price in the snapshot of the actual trade date (no column, or a
\* missing value) is not held, and the cash spent is the cost of the held
\* names alone: cash plus their cost is the start asset value.
C2_UnpricedNeverAllocated ==
    (ChkAfterQuarter /\ ChkDone \in DOMAIN all_top_stocks /\ ChkHasDate(ChkDone)) =>
        LET px == ChkSnapshot(ChkDone)
            top == all_top_stocks[ChkDone]
        IN  /\ \A k \in DOMAIN top :
                  ~ChkPriced(px, top[k]) => top[k] \notin DOMAIN current_portfolio
            /\ \A name \in DOMAIN current_portfolio : ChkPriced(px, name)
            /\ FAdd(cash, ChkValue(DOMAIN current_portfolio, current_portfolio, px))
                  = portfolio_history[ChkDone].start_asset

\* C2 witness: a top-N list with an unpriced name and a name that was bought.
C2_Witness ==
    /\ ChkAfterQuarter
    /\ ChkDone \in DOMAIN all_top_stocks
    /\ ChkHasDate(ChkDone)
    /\ \E k \in DOMAIN all_top_stocks[ChkDone] :
          ~ChkPriced(ChkSnapshot(ChkDone), all_top_stocks[ChkDone][k])
    /\ current_portfolio # << >>

\* C3: a quarter whose period start ran and whose top-N list has no
\* tradable name ends with cash equal to its recorded start asset value and
\* with empty holdings.
C3_NoTradableKeepsCash ==
    (/\ ChkAfterQuarter
     /\ ChkDone \in DOMAIN portfolio_history
     /\ ChkDone \in DOMAIN all_top_stocks
     /\ \A k \in DOMAIN all_top_stocks[ChkDone] :
           ~ChkTradable(ChkSnapshot(ChkDone), all_top_stocks[ChkDone][k]))
    => (cash = portfolio_history[ChkDone].start_asset /\ current_portfolio = << >>)

\* C3 witness: a quarter before the last with no tradable top-N name, after
\* holdings of the quarter before it were marked to market.
C3_Witness ==
    /\ main_pc = "backtest"
    /\ i = 2
    /\ ~price_ts.none
    /\ 1 \in DOMAIN portfolio_history
    /\ 1 \in DOMAIN all_top_stocks
    /\ \A k \in DOMAIN all_top_stocks[1] : ~ChkTradable(ChkSnapshot(1), all_top_stocks[1][k])
    /\ portfolio_history[1].start_asset # Num(INITIAL_CAPITAL)
    /\ current_portfolio = << >>

\* C4: no anomaly of a quarter is fatal: no exception other than the
\* KeyError of a fundamentals table without the name column leaves
\* backtest_and_analyze.
C4_NoQuarterAnomalyFatal == exception \in {"none", "KeyError"}

\* C5: a quarter with a price table but no date on or after its trade date
\* is skipped: cash, holdings, history, rankings and loadings are unchanged
\* and the loop goes on to the next quarter.
C5_NoDateSkipsQuarter ==
    [][ (main_pc = "backtest" /\ i < NumQuarters /\ ~price_ts.none /\ ~ChkHasDate(i)) =>
          /\ cash' = cash
          /\ current_portfolio' = current_portfolio
          /\ portfolio_history' = portfolio_history
          /\ all_top_stocks' = all_top_stocks
          /\ all_loadings' = all_loadings
          /\ i' = i + 1
          /\ main_pc' = "backtest" ]_vars

\* C5 witness: quarter 1 was skipped with the holdings of quarter 0 kept.
C5_Witness ==
    /\ main_pc = "backtest"
    /\ i = 2
    /\ ~price_ts.none
    /\ DOMAIN portfolio_history = {0}
    /\ current_portfolio # << >>
    /\ ~ChkHasDate(1)

\* C6: at the period start of a quarter i > 0 a held name without a price
\* on the actual trade date counts 0: the start asset value is the cash plus
\* the value of the priced holdings, a defined number.
C6_UnpricedHoldingCountsZero ==
    [][ (ChkStartStep /\ i > 0) =>
          LET px == ChkSnapshot(i)
              priced == {name \in DOMAIN current_portfolio : ChkPriced(px, name)}
          IN  /\ portfolio_history'[i].start_asset =
                    FAdd(cash, ChkValue(priced, current_portfolio, px))
              /\ (~cash.nan => ~portfolio_history'[i].start_asset.nan) ]_vars

\* The latest quarter with a history record.
ChkLastRecorded == CHOOSE q \in DOMAIN portfolio_history : \A r \in DOMAIN portfolio_history : r <= q

\* C7 as claimed: a run with prices and a non-empty history ends with an
\* end_asset on the chronologically last history record and on no other.
C7_EndAssetOnLastRecord ==
    (main_pc = "returned" /\ ~price_ts.none /\ DOMAIN portfolio_history # {}) =>
        \A q \in DOMAIN portfolio_history : HasEnd(q) <=> q = ChkLastRecorded

\* C7 amended: a run with prices and a non-empty history ends with the
\* terminal value as end_asset of the record of the last quarter of the
\* sequence when that quarter has a record, and with no end_asset on any
\* other record; before the liquidation no record has an end_asset.
C7_EndAssetOnLastQuarter ==
    /\ (main_pc = "returned" /\ ~price_ts.none /\ DOMAIN portfolio_history # {}) =>
          \A q \in DOMAIN portfolio_history :
              /\ HasEnd(q) <=> q = NumQuarters - 1
              /\ HasEnd(q) => (liquidated /\ portfolio_history[q].end_asset = final_asset_value)
    /\ main_pc = "backtest" => \A q \in DOMAIN portfolio_history : ~HasEnd(q)

\* C7 witness: a run that recorded the last quarter and an earlier one.
C7_Witness ==
    /\ main_pc = "returned"
    /\ ~price_ts.none
    /\ Cardinality(DOMAIN portfolio_history) >= 2
    /\ (NumQuarters - 1) \in DOMAIN portfolio_history
    /\ HasEnd(NumQuarters - 1)
    /\ portfolio_history[NumQuarters - 1].end_asset # Num(INITIAL_CAPITAL)

\* The most recent non-missing price of name in the price table, 0 if none.
ChkLastAvailable(name) ==
    LET priced == {k \in DOMAIN price_ts.rows : ChkPriced(price_ts.rows[k].px, name)}
        last == CHOOSE k \in priced :
                   \A j \in priced : price_ts.rows[j].date <= price_ts.rows[k].date
    IN  IF priced = {} THEN Num(0) ELSE price_ts.rows[last].px[name]

\* C8: the terminal value is the cash plus the sum over the holdings of
\* shares times the most recent non-missing price of the name (0 if none).
C8_TerminalValue ==
    (main_pc = "returned" /\ liquidated) =>
        final_asset_value =
            FAdd(cash, ChkValue(DOMAIN current_portfolio, current_portfolio,
                                [name \in DOMAIN current_portfolio |-> ChkLastAvailable(name)]))

\* Share of the first k factors reaches the threshold (k >= 0).
ChkReaches(k) ==
    SumSeq(eig_vals, k) * min_cum_var.d >= min_cum_var.n * SumSeq(eig_vals, Len(eig_vals))

\* C9: for shares summing to 1 and a threshold in (0, 1], the chosen count n
\* is >= 1 and at most the number of fitted factors, the first n shares reach
\* the threshold (equality counts), and the first n - 1 do not when n > 1.
C9_MinimalFactorCount ==
    (fa_pc # "first_fit" /\ fa_pc # "idle" /\ SumSeq(eig_vals, Len(eig_vals)) > 0) =>
        /\ n_factors >= 1
        /\ n_factors <= Len(eig_vals)
        /\ ChkReaches(n_factors)
        /\ n_factors > 1 => ~ChkReaches(n_factors - 1)

\* C9 witness: three fitted factors, two chosen, the first two shares equal
\* to the threshold exactly.
C9_Witness ==
    /\ fa_pc = "refit"
    /\ Len(eig_vals) = 3
    /\ n_factors = 2
    /\ SumSeq(eig_vals, 2) * min_cum_var.d = min_cum_var.n * SumSeq(eig_vals, 3)
    /\ eig_vals[3] > 0

\* C10: a fundamentals table without the name column aborts at most the run
\* of its industry: when its KeyError has been raised main goes through the
\* other files and reaches the comparison.
C10_BatchIsolation ==
    (main_pc = "raised" /\ exception = "KeyError") =>
        (compared /\ file_idx = NumIndustries)

\* Names of a ranked list.
ChkNames(top) == {top[k] : k \in DOMAIN top}

\* C12: without a price table (none supplied, or its preprocessing failed)
\* every quarter step leaves cash at the initial capital and the holdings
\* empty, the history stays empty up to the return, no final liquidation is
\* computed, and a quarter whose factor extraction succeeds gets a loadings
\* entry and a non-empty top-N ranking.
C12_RankingOnlyWithoutPrices ==
    [][ (main_pc = "backtest" /\ price_ts.none) =>
          /\ cash' = cash
          /\ cash = Num(INITIAL_CAPITAL)
          /\ current_portfolio' = current_portfolio
          /\ current_portfolio = << >>
          /\ portfolio_history' = << >>
          /\ ~liquidated'
          /\ QuarterRanked =>
                /\ i \in all_loadings'
                /\ i \in DOMAIN all_top_stocks'
                /\ all_top_stocks'[i] # << >>
                /\ \A q \in DOMAIN all_top_stocks : all_top_stocks'[q] = all_top_stocks[q] ]_vars

\* C12 witness: a run without prices returned with a ranking and loadings
\* for every quarter and an empty history.
C12_Witness ==
    /\ main_pc = "returned"
    /\ price_ts.none
    /\ DOMAIN all_top_stocks = 0..(NumQuarters - 1)
    /\ all_loadings = 0..(NumQuarters - 1)
    /\ portfolio_history = << >>
    /\ cash = Num(INITIAL_CAPITAL)
    /\ current_portfolio = << >>

\* C13: a quarter whose period start ran and whose window is empty or whose
\* factor extractor returns (None, None) adds exactly its start record to
\* the history, ends with cash equal to that start asset value and with no
\* holdings, gets no loadings and no ranking entry, and the loop goes on to
\* the next quarter.
C13_FailedScoringKeepsStartRecord ==
    [][ (ChkStartStep /\ (QuarterNoWindow \/ QuarterFitFailed)) =>
          /\ DOMAIN portfolio_history' = DOMAIN portfolio_history \cup {i}
          /\ \A q \in DOMAIN portfolio_history \ {i} :
                portfolio_history'[q] = portfolio_history[q]
          /\ DOMAIN portfolio_history'[i] = {"start_asset"}
          /\ cash' = portfolio_history'[i].start_asset
          /\ current_portfolio' = << >>
          /\ i \notin DOMAIN all_top_stocks'
          /\ i \notin all_loadings'
          /\ all_top_stocks' = all_top_stocks
          /\ all_loadings' = all_loadings
          /\ main_pc' = "backtest"
          /\ i' = i + 1 ]_vars

\* C13 witness: quarter 1 ended without a ranking after the holdings of
\* quarter 0 were marked to market at a value other than the initial capital.
C13_Witness ==
    /\ main_pc = "backtest"
    /\ i = 2
    /\ ~price_ts.none
    /\ DOMAIN portfolio_history = {0, 1}
    /\ DOMAIN all_top_stocks = {0}
    /\ all_loadings = {0}
    /\ ~portfolio_history[1].start_asset.nan
    /\ portfolio_history[1].start_asset # Num(INITIAL_CAPITAL)
    /\ cash = portfolio_history[1].start_asset
    /\ current_portfolio = << >>

\* C14: when the period start of the last quarter of the sequence ran, the
\* loop ends with empty holdings and cash equal to the start asset value of
\* that quarter, and the final liquidation records an end_asset equal to the
\* start_asset of the same record.
C14_LastQuarterNeverBuys ==
    (/\ main_pc \in {"backtest", "returned"}
     /\ ~price_ts.none
     /\ i = NumQuarters
     /\ (NumQuarters - 1) \in DOMAIN portfolio_history) =>
        /\ current_portfolio = << >>
        /\ cash = portfolio_history[NumQuarters - 1].start_asset
        /\ main_pc = "returned" =>
              /\ liquidated
              /\ HasEnd(NumQuarters - 1)
              /\ portfolio_history[NumQuarters - 1].end_asset =
                    portfolio_history[NumQuarters - 1].start_asset
              /\ final_asset_value = portfolio_history[NumQuarters - 1].start_asset

\* C14 witness: the last quarter had a tradable top-N name and a start asset
\* value other than the initial capital, and the run was liquidated.
C14_Witness ==
    /\ main_pc = "returned"
    /\ ~price_ts.none
    /\ (NumQuarters - 1) \in DOMAIN portfolio_history
    /\ (NumQuarters - 1) \in DOMAIN all_top_stocks
    /\ \E name \in ChkNames(all_top_stocks[NumQuarters - 1]) :
          ChkTradable(ChkSnapshot(NumQuarters - 1), name)
    /\ ~portfolio_history[NumQuarters - 1].start_asset.nan
    /\ portfolio_history[NumQuarters - 1].start_asset # Num(INITIAL_CAPITAL)
    /\ HasEnd(NumQuarters - 1)

\* The tradable names of the top-N list of quarter q.
ChkTradableSet(q) ==
    {name \in ChkNames(all_top_stocks[q]) : ChkTradable(ChkSnapshot(q), name)}

\* C15: after a quarter before the last with k >= 1 tradable top-N names
\* the holdings are those names with (start asset / k) / price shares each,
\* cash is 0, and cash plus the holdings at the prices of the actual trade
\* date is the start asset value; initial capital 1,000,000, one name and a
\* price of 10 give 100,000 shares.
C15_EqualSplit ==
    /\ (/\ ChkAfterQuarter
        /\ ChkDone < NumQuarters - 1
        /\ ChkDone \in DOMAIN all_top_stocks
        /\ ChkHasDate(ChkDone)
        /\ ChkTradableSet(ChkDone) # {}) =>
          LET px == ChkSnapshot(ChkDone)
              T == ChkTradableSet(ChkDone)
              start == portfolio_history[ChkDone].start_asset
          IN  /\ DOMAIN current_portfolio = T
              /\ \A name \in T :
                    current_portfolio[name] =
                        FDiv(FDiv(start, Num(Cardinality(T))), px[name])
              /\ cash = Num(0)
              /\ FAdd(cash, ChkValue(T, current_portfolio, px)) = start
    /\ Buy(<< "A" >>, 1, FDiv(Num(INITIAL_CAPITAL), Num(1)), [A |-> Num(10)],
           Num(INITIAL_CAPITAL), << >>)
          = [cash |-> Num(0), portfolio |-> [A |-> Num(100000)]]

C18_RecordedQuartersArePrefix ==
    (main_pc \in {"backtest", "returned"} /\ ~price_ts.none) =>
        /\ \A q \in 0..(i - 1) : q \in DOMAIN portfolio_history <=> ChkHasDate(q)
        /\ \A q, r \in 0..(NumQuarters - 1) : (q < r /\ ~ChkHasDate(q)) => ~ChkHasDate(r)
        /\ \E k \in 0..NumQuarters : DOMAIN portfolio_history = 0..(k - 1)
        /\ current_portfolio # << >> =>
              /\ DOMAIN portfolio_history # {}
              /\ ChkLastRecorded \in DOMAIN all_top_stocks
              /\ DOMAIN current_portfolio \subseteq ChkTradableSet(ChkLastRecorded)

\* C18 witness: the run ended holding the names bought in quarter 0, the
\* later quarters having no date on or after their trade date.
C18_Witness ==
    /\ main_pc = "returned"
    /\ ~price_ts.none
    /\ DOMAIN portfolio_history = {0}
    /\ current_portfolio # << >>
    /\ ~ChkHasDate(1)
    /\ liquidated

\* The securities of the table handed to the backtest whose window column
\* is missing.
ChkWindowMissing == {s \in DOMAIN fundamental_df.rows : fundamental_df.rows[s]["w"].nan}

\* C11: when the matrix of a quarter is built, an indicator whose window
\* column is missing for more than 80% of the securities of the table is not
\* a column of the matrix, and every value of the matrix is the non-missing
\* window value of its security.
C11_SparseIndicatorExcluded ==
    agg_pc = "matrix" =>
        /\ 5 * Cardinality(ChkWindowMissing) > 4 * Cardinality(DOMAIN fundamental_df.rows)
              => "X" \notin mean_df.cols
        /\ \A s \in DOMAIN mean_df.rows :
              /\ s \notin ChkWindowMissing
              /\ mean_df.rows[s] = fundamental_df.rows[s]["w"]

\* Months are counted as 12 * year + month - 1; the trade date of quarter q
\* is the first day of April 2021 plus three months per quarter.
ChkTradeMonth(q) == 12 * 2021 + 3 + 3 * q

\* The label holds a four-digit run with a report tag after it.
ChkParses(label) ==
    \E p, r \in DOMAIN label : p < r /\ label[p] \in LabelYears /\ label[r] \in ReportTags

\* The month of the period of a label that parses: the month of the first
\* tag after the leftmost four-digit run followed by a tag, in that year.
ChkPeriodMonth(label) ==
    LET ok(p) == label[p] \in LabelYears /\ \E r \in DOMAIN label : r > p /\ label[r] \in ReportTags
        p == CHOOSE x \in DOMAIN label : ok(x) /\ \A y \in 1..(x - 1) : ~ok(y)
        r == CHOOSE x \in DOMAIN label :
                /\ x > p
                /\ label[x] \in ReportTags
                /\ \A y \in (p + 1)..(x - 1) : label[y] \notin ReportTags
    IN  12 * int_year[label[p]] + report_map[label[r]] - 1

\* The last day of the period month lies in [t5, t2] for quarter q: the
\* month is at least 15 and at most 7 months before the trade month.
ChkEligible(label, q) ==
    /\ ChkParses(label)
    /\ ChkTradeMonth(q) - 15 <= ChkPeriodMonth(label)
    /\ ChkPeriodMonth(label) <= ChkTradeMonth(q) - 7

\* C17: the window selection of a quarter raises no error and selects
\* exactly the columns other than the first whose label parses to a year
\* and a report tag with a period date (the last day of month 3, 6, 9 or 12
\* of that year) in [t5, t2], both ends included, t2 six months before the
\* trade date and t5 nine months before t2.
C17_WindowColumnsExact ==
    win_pc \notin {"idle", "select"} =>
        /\ win_pc # "raised"
        /\ window_cols = SelectSeq(Tail(columns), LAMBDA col : ChkEligible(col, trade_idx))

\* The report periods (months 3, 6, 9, 12) of the years around the backtest.
ChkPeriodMonths == {12 * y + m - 1 : y \in 2018..2024, m \in {3, 6, 9, 12}}

\* The last calendar day of the month numbered idx.
ChkPeriodEnd(idx) ==
    LET y == idx \div 12
        m == (idx % 12) + 1
    IN  Date(y, m, IF m \in {3, 12} THEN 31 ELSE 30)

\* C19: the trade date of a quarter is the first day of January, April,
\* July or October; the report periods whose month-end lies in [t5, t2] are
\* exactly the three ending 7, 10 and 13 months before the trade month; and
\* every selected column is dated at least six months before the trade date.
C19_NoLookAhead ==
    win_pc # "idle" =>
        LET trade_date == quarters(trade_idx)
            M == ChkTradeMonth(trade_idx)
        IN  /\ trade_date = Date(M \div 12, (M % 12) + 1, 1)
            /\ trade_date.m \in {1, 4, 7, 10}
            /\ {r \in ChkPeriodMonths :
                    /\ DateLe(t5(trade_date), ChkPeriodEnd(r))
                    /\ DateLe(ChkPeriodEnd(r), t2(trade_date))}
                  = {M - 7, M - 10, M - 13}
            /\ \A k \in DOMAIN window_cols :
                  /\ ChkParses(window_cols[k])
                  /\ ChkPeriodMonth(window_cols[k]) + 7 <= M
                  /\ DateLe(ChkPeriodEnd(ChkPeriodMonth(window_cols[k])),
                            DateOffsetBack(trade_date, 6))
                  /\ ~DateLe(trade_date, ChkPeriodEnd(ChkPeriodMonth(window_cols[k])))

\* C19 witness: the window of a January trade date selected the column of
\* the mid-year report ending seven months before.
C19_Witness ==
    /\ win_pc = "aggregate"
    /\ quarters(trade_idx).m = 1
    /\ \E k \in DOMAIN window_cols :
          /\ ChkPeriodMonth(window_cols[k]) = ChkTradeMonth(trade_idx) - 7
          /\ Len(window_cols[k]) = 3

====
